---- MODULE Spec2Model ----
(***************************************************************************)
(* A model of the agent workflows of this repository:                      *)
(*   - Assignment2-Langhgraph_Agents/Part3/agent_demo.py: the LangGraph    *)
(*     supervisor / planner / reviewer graph with its router,              *)
(*   - Assignment1-AgenticAI/Part2/agents_demo.py: the linear              *)
(*     planner -> reviewer -> finalizer pipeline and its helpers.          *)
(*   - Assignment2-Langhgraph_Agents/Part1_and_2/main.py: the book store   *)
(*     and its requests.                                                   *)
(*                                                                         *)
(* Python strings are sequences of one-character strings, so that strip,   *)
(* lower, split and join are computed and not assumed.  A JSON value is a  *)
(* record [type, chars, items]; a dict with the keys the code reads is a   *)
(* record [exists, tags, summary, extra].  The text a model call returns   *)
(* is a sequence of tokens (prose, newline, fence, braces, a serialized    *)
(* object, a truncated object, a loose "tags [..] summary: .." phrase).    *)
(***************************************************************************)
EXTENDS Integers, Sequences, FiniteSets, TLC

VARIABLES
    workflow,           \* which program runs: "graph", "linear", or a probe of a pure function
    pc,                 \* the node / statement the driver is at
    title,              \* AgentState["title"]
    content,            \* AgentState["content"]
    planner_proposal,   \* AgentState["planner_proposal"]
    reviewer_feedback,  \* AgentState["reviewer_feedback"]
    turn_count,         \* AgentState["turn_count"]
    force_issue,        \* reviewer_node's force_issue toggle
    response,           \* the text the last Planner model call returned
    decision,           \* what router_logic returned last ("none" before the first call)
    error,              \* the exception that left the workflow, "none" if none
    router_evals,       \* number of router_logic evaluations so far
    llm_calls,          \* number of model calls made so far
    last_node,          \* the node that ran last
    final_json,         \* main()'s final publish record
    planner_obj,        \* run_agent_workflow: planner_obj
    reviewer_obj,       \* run_agent_workflow: reviewer_obj
    finalizer_obj,      \* run_agent_workflow: finalizer_obj
    fn_in,              \* probe of a pure function: its argument
    fn_out,             \* probe of a pure function: its results
    verdicts,           \* the has_issues value of every verdict reviewer_node returned
    relevance,          \* what the model answered to the Reviewer's relevance question
    stages,             \* the stages (planner, reviewer, finalizer) entered so far, in order
    books_db,           \* Part1_and_2 main.py: books_db
    next_id,            \* Part1_and_2 main.py: next_id
    last_request        \* the book store's last request and the store it was made on

vars == <<workflow, pc, title, content, planner_proposal, reviewer_feedback,
          turn_count, force_issue, response, decision, error, router_evals,
          llm_calls, last_node, final_json, planner_obj, reviewer_obj,
          finalizer_obj, fn_in, fn_out, verdicts, relevance, stages, books_db,
          next_id, last_request>>

\* the variables of the agent workflows and of the book store
agentVars == <<workflow, pc, title, content, planner_proposal, reviewer_feedback,
               turn_count, force_issue, response, decision, error, router_evals,
               llm_calls, last_node, final_json, planner_obj, reviewer_obj,
               finalizer_obj, fn_in, fn_out, verdicts, relevance, stages>>
bookVars == <<books_db, next_id, last_request>>

(***************************************************************************)
(* Bounds of the model and constants of the program                        *)
(***************************************************************************)
MaxTags == 4          \* longest tag list a model text carries
MaxProbeTurn == 7     \* largest turn_count handed to router_logic when probed
ExtraWords == 2       \* how many words past the limit the longest summary has
MaxBookId == 5        \* the largest id the book store hands out

MAX_TURNS == 5        \* router_logic
MAX_WORDS == 25       \* planner_node / reviewer_node
NUM_TAGS == 3         \* planner_node / finalize_output

END == "__end__"

(***************************************************************************)
(* Python str                                                              *)
(***************************************************************************)
IsSpace(c) == c \in {" ", "\n", "\t"}

LowerChar(c) ==
    CASE c = "A" -> "a"
      [] c = "B" -> "b"
      [] c = "G" -> "g"
      [] OTHER -> c

RECURSIVE lower(_)
lower(s) == IF s = <<>> THEN <<>> ELSE <<LowerChar(Head(s))>> \o lower(Tail(s))

RECURSIVE lstrip(_)
lstrip(s) == IF s # <<>> /\ IsSpace(Head(s)) THEN lstrip(Tail(s)) ELSE s

RECURSIVE rstrip(_)
rstrip(s) ==
    IF s # <<>> /\ IsSpace(s[Len(s)]) THEN rstrip(SubSeq(s, 1, Len(s) - 1)) ELSE s

strip(s) == rstrip(lstrip(s))

\* index of the first whitespace character of s, Len(s) + 1 if there is none
RECURSIVE FirstSpace(_, _)
FirstSpace(s, i) ==
    IF i > Len(s) THEN i ELSE IF IsSpace(s[i]) THEN i ELSE FirstSpace(s, i + 1)

\* str.split(): the maximal runs of non-whitespace characters
RECURSIVE split(_)
split(s) ==
    LET t == lstrip(s)
    IN  IF t = <<>> THEN <<>>
        ELSE LET n == FirstSpace(t, 1)
             IN  <<SubSeq(t, 1, n - 1)>> \o split(SubSeq(t, n, Len(t)))

\* " ".join(words)
RECURSIVE join(_)
join(words) ==
    IF words = <<>> THEN <<>>
    ELSE IF Len(words) = 1 THEN words[1]
    ELSE words[1] \o <<" ">> \o join(Tail(words))

(***************************************************************************)
(* JSON values and dicts                                                   *)
(***************************************************************************)
Absent == [type |-> "absent", chars |-> <<>>, items |-> <<>>]
JNull == [type |-> "null", chars |-> <<>>, items |-> <<>>]
JStr(cs) == [type |-> "str", chars |-> cs, items |-> <<>>]
JInt(cs) == [type |-> "int", chars |-> cs, items |-> <<>>]
JList(xs) == [type |-> "list", chars |-> <<>>, items |-> xs]

\* Python truth value of a JSON value
Truthy(v) ==
    CASE v.type = "str" -> v.chars # <<>>
      [] v.type = "int" -> v.chars # <<"0">>
      [] v.type = "list" -> v.items # <<>>
      [] OTHER -> FALSE

NoDict == [exists |-> FALSE, tags |-> Absent, summary |-> Absent, extra |-> FALSE]
EmptyDict == [exists |-> TRUE, tags |-> Absent, summary |-> Absent, extra |-> FALSE]
Dict(t, s) == [exists |-> TRUE, tags |-> t, summary |-> s, extra |-> FALSE]

\* bool(d) of a dict or None
DictTruthy(d) ==
    d.exists /\ (d.tags.type # "absent" \/ d.summary.type # "absent" \/ d.extra)

(***************************************************************************)
(* The text of a model reply, as tokens                                    *)
(*   prose   characters other than whitespace, braces, brackets, fences    *)
(*   nl      a newline                                                     *)
(*   fence   three backticks                                               *)
(*   lbrace  a "{" on its own;  rbrace  a "}" on its own                   *)
(*   obj     json.dumps of the dict d on one line: {"tags": .., ..}        *)
(*   broken  the same cut before its closing quote and brace               *)
(*   loose   prose of the shape  tags [a, b] summary: words                *)
(* A broken or loose token is the last of its text but for newlines.       *)
(***************************************************************************)
Tok(k, d) == [k |-> k, d |-> d]
Prose == Tok("prose", NoDict)
NL == Tok("nl", NoDict)
Fence == Tok("fence", NoDict)
LBrace == Tok("lbrace", NoDict)
RBrace == Tok("rbrace", NoDict)
Obj(d) == Tok("obj", d)
Broken(d) == Tok("broken", d)
Loose(d) == Tok("loose", d)

HasOpen(tok) == tok.k \in {"lbrace", "obj", "broken"}

RECURSIVE lstripText(_)
lstripText(t) == IF t # <<>> /\ Head(t).k = "nl" THEN lstripText(Tail(t)) ELSE t

RECURSIVE rstripText(_)
rstripText(t) ==
    IF t # <<>> /\ t[Len(t)].k = "nl" THEN rstripText(SubSeq(t, 1, Len(t) - 1)) ELSE t

stripText(t) == rstripText(lstripText(t))

Fail == [ok |-> FALSE, d |-> NoDict]
Ok(d) == [ok |-> TRUE, d |-> d]

\* json.loads of a candidate that starts with "{": a dict, or JSONDecodeError
json_loads(cand) ==
    LET c == stripText(cand)
    IN  IF Len(c) = 1 /\ c[1].k = "obj" THEN Ok(c[1].d) ELSE Fail

\* index of the first token from i on that satisfies the test, Len + 1 if none
RECURSIVE FirstKind(_, _, _)
FirstKind(t, kinds, i) ==
    IF i > Len(t) THEN i
    ELSE IF t[i].k \in kinds THEN i ELSE FirstKind(t, kinds, i + 1)

\* index of the last token up to i that satisfies the test, 0 if none
RECURSIVE LastKind(_, _, _)
LastKind(t, kinds, i) ==
    IF i < 1 THEN 0
    ELSE IF t[i].k \in kinds THEN i ELSE LastKind(t, kinds, i - 1)

\* text.split("```")
RECURSIVE SplitFence(_)
SplitFence(t) ==
    LET n == FirstKind(t, {"fence"}, 1)
    IN  IF n > Len(t) THEN <<t>>
        ELSE <<SubSeq(t, 1, n - 1)>> \o SplitFence(SubSeq(t, n + 1, Len(t)))

\* part.split("\n", 1)[-1] if "\n" in part else part, then .strip()
FenceCandidate(part) ==
    LET n == FirstKind(part, {"nl"}, 1)
    IN  stripText(IF n > Len(part) THEN part ELSE SubSeq(part, n + 1, Len(part)))

\* Strategy 1: the first fenced part that starts with "{" and parses
RECURSIVE FencedFrom(_, _)
FencedFrom(parts, i) ==
    IF i > Len(parts) THEN Fail
    ELSE LET cand == FenceCandidate(parts[i])
         IN  IF cand # <<>> /\ HasOpen(cand[1]) /\ json_loads(cand).ok
             THEN json_loads(cand)
             ELSE FencedFrom(parts, i + 1)

StrategyFenced(text) ==
    IF FirstKind(text, {"fence"}, 1) <= Len(text)
    THEN FencedFrom(SplitFence(text), 2)
    ELSE Fail

\* Strategy 2: text[text.find("{") : text.rfind("}") + 1]
StrategyBraces(text) ==
    LET brace_start == FirstKind(text, {"lbrace", "obj", "broken"}, 1)
        brace_end == LastKind(text, {"rbrace", "obj"}, Len(text))
    IN  IF brace_start <= Len(text) /\ brace_end >= brace_start
        THEN json_loads(SubSeq(text, brace_start, brace_end))
        ELSE Fail

\* the characters of one entry of the bracketed list after
\* t.strip().strip('"').strip("'")
RegexItem(tok, v) ==
    CASE v.type = "str" -> IF tok.k = "loose" THEN strip(v.chars) ELSE v.chars
      [] v.type = "int" -> v.chars
      [] OTHER -> <<"n", "u", "l", "l">>

HasBracketList(tok) ==
    tok.k \in {"obj", "broken", "loose"} /\ tok.d.tags.type = "list"
        /\ tok.d.tags.items # <<>>

HasSummaryLabel(tok) ==
    /\ tok.k \in {"obj", "broken", "loose"}
    /\ \/ tok.d.summary.type = "str" /\ tok.d.summary.chars # <<>>
       \/ tok.d.summary.type \in {"int", "null"}

RECURSIVE FirstWhere(_, _, _)
FirstWhere(t, P(_), i) ==
    IF i > Len(t) THEN i ELSE IF P(t[i]) THEN i ELSE FirstWhere(t, P, i + 1)

RECURSIVE NonEmpty(_)
NonEmpty(xs) ==
    IF xs = <<>> THEN <<>>
    ELSE IF Head(xs) # <<>> THEN <<Head(xs)>> \o NonEmpty(Tail(xs))
    ELSE NonEmpty(Tail(xs))

FirstN(xs, n) == SubSeq(xs, 1, IF Len(xs) < n THEN Len(xs) ELSE n)

\* Strategy 3: regex for a bracketed list and a summary-labelled value
StrategyRegex(text) ==
    LET ti == FirstWhere(text, HasBracketList, 1)
        si == FirstWhere(text, HasSummaryLabel, 1)
        raw == IF ti > Len(text) THEN <<>>
               ELSE [i \in 1..Len(text[ti].d.tags.items) |->
                        RegexItem(text[ti], text[ti].d.tags.items[i])]
        tags == FirstN(NonEmpty(raw), 3)
        sv == text[si].d.summary
        summary == IF si > Len(text) THEN <<>>
                   ELSE IF sv.type = "null" THEN <<"n", "u", "l", "l">>
                   ELSE strip(sv.chars)
    IN  IF tags # <<>> /\ summary # <<>>
        THEN Ok(Dict(JList([i \in 1..Len(tags) |-> JStr(tags[i])]), JStr(summary)))
        ELSE Fail

\* raise ValueError(f"Could not parse JSON from LLM output:\n{text}")
ValueError(text) == [ok |-> FALSE, d |-> NoDict, text |-> text]

\* extract_json_from_text with the regex strategy tried first
extract_json_from_text_RegexFirst(text0) ==
    LET text == stripText(text0)
    IN  IF StrategyRegex(text).ok THEN StrategyRegex(text)
        ELSE IF StrategyFenced(text).ok THEN StrategyFenced(text)
        ELSE IF StrategyBraces(text).ok THEN StrategyBraces(text)
        ELSE ValueError(text)

\* Part3 extract_json_from_text: a dict, or ValueError (ok = FALSE)
extract_json_from_text(text0) ==
    LET text == stripText(text0)
    IN  IF StrategyFenced(text).ok THEN StrategyFenced(text)
        ELSE IF StrategyBraces(text).ok THEN StrategyBraces(text)
        ELSE IF StrategyRegex(text).ok THEN StrategyRegex(text)
        ELSE ValueError(text)

\* Part2 extract_json_from_text: re.search(r"\{.*\}", DOTALL), json.loads, or None
extract_json_linear(text) ==
    LET first == FirstKind(text, {"lbrace", "obj", "broken"}, 1)
        last == LastKind(text, {"rbrace", "obj"}, Len(text))
    IN  IF first <= Len(text) /\ last >= first
        THEN json_loads(SubSeq(text, first, last))
        ELSE Fail

(***************************************************************************)
(* Part3: the nodes of the graph, as functions of the state and of what    *)
(* the model call returned                                                 *)
(***************************************************************************)
AgentState ==
    [title |-> title, content |-> content, planner_proposal |-> planner_proposal,
     reviewer_feedback |-> reviewer_feedback, turn_count |-> turn_count]

GENERAL == <<"g", "e", "n", "e", "r", "a", "l">>

\* the proposal planner_node falls back to when parsing or validation raises
FALLBACK ==
    Dict(JList(<<JStr(<<"t", "a", "g", "1">>), JStr(<<"t", "a", "g", "2">>),
                 JStr(<<"t", "a", "g", "3">>)>>),
         JStr(<<"o", "n", "e", " ", "w", "o", "r", "d", " ",
                "s", "u", "m", "m", "a", "r", "y">>))

\* while len(tags) < 3: tags.append("general")
RECURSIVE PadTags(_)
PadTags(items) ==
    IF Len(items) >= NUM_TAGS THEN items ELSE PadTags(Append(items, JStr(GENERAL)))

\* planner_node without the trim of a long summary
TrimSummary_KeepsAll(chars) == chars

\* words = summary.split(); " ".join(words[:25]) if len(words) > 25
TrimSummary(chars) ==
    LET words == split(chars)
    IN  IF Len(words) > MAX_WORDS THEN join(SubSeq(words, 1, MAX_WORDS)) ELSE chars

\* the try block without the isinstance(proposal["tags"], list) check
PlannerRaises_NoListCheck(r) ==
    \/ ~r.ok
    \/ r.d.tags.type = "absent" \/ r.d.summary.type = "absent"
    \/ r.d.summary.type # "str"

\* the try block of planner_node: TRUE when it raises
PlannerRaises(r) ==
    \/ ~r.ok
    \/ r.d.tags.type = "absent" \/ r.d.summary.type = "absent"
    \/ r.d.tags.type # "list"
    \/ r.d.summary.type # "str"

\* planner_node: the value of the planner_proposal key it returns
planner_node(state, response_text) ==
    LET r == extract_json_from_text(response_text)
    IN  IF PlannerRaises(r) THEN FALLBACK
        ELSE [r.d EXCEPT !.tags = JList(PadTags(FirstN(r.d.tags.items, NUM_TAGS))),
                         !.summary = JStr(TrimSummary(r.d.summary.chars))]

\* reviewer_feedback dicts: keys is the set of keys present
NoFeedback == [exists |-> FALSE, keys |-> {}, has_issues |-> FALSE, issues |-> <<>>]
EmptyFeedback == [exists |-> TRUE, keys |-> {}, has_issues |-> FALSE, issues |-> <<>>]
Feedback(h, iss) ==
    [exists |-> TRUE, keys |-> {"has_issues", "issues"}, has_issues |-> h, issues |-> iss]

FeedbackTruthy(f) == f.exists /\ f.keys # {}
\* the truth value of feedback.get("has_issues")
GetHasIssues(f) == "has_issues" \in f.keys /\ f.has_issues

\* any(not t or not t.strip() for t in tags): "yes", "no", or "raise" when a
\* truthy entry without .strip is reached before any() has its answer
RECURSIVE AnyBlank(_)
AnyBlank(items) ==
    IF items = <<>> THEN "no"
    ELSE LET t == Head(items)
         IN  IF ~Truthy(t) THEN "yes"
             ELSE IF t.type # "str" THEN "raise"
             ELSE IF strip(t.chars) = <<>> THEN "yes"
             ELSE AnyBlank(Tail(items))

\* proposal.get("tags", []) and proposal.get("summary", "")
GetTags(proposal) == IF proposal.tags.type = "absent" THEN JList(<<>>) ELSE proposal.tags
GetSummary(proposal) ==
    IF proposal.summary.type = "absent" THEN JStr(<<>>) ELSE proposal.summary

\* the entries of a str are its characters
TagEntries(tags) ==
    IF tags.type = "str" THEN [i \in 1..Len(tags.chars) |-> JStr(<<tags.chars[i]>>)]
    ELSE tags.items

\* rules 1-4 of reviewer_node raise before the model is called
ReviewRaises(proposal) ==
    LET tags == GetTags(proposal)
        summary == GetSummary(proposal)
    IN  \/ tags.type \notin {"list", "str"}
        \/ summary.type # "str"
        \/ AnyBlank(TagEntries(tags)) = "raise"

Cond(b, x) == IF b THEN <<x>> ELSE <<>>

\* the issues list of reviewer_node for a proposal whose rules do not raise
ReviewIssues(proposal, force) ==
    LET entries == TagEntries(GetTags(proposal))
        summary == GetSummary(proposal).chars
    IN  Cond(Len(entries) # NUM_TAGS, "Need exactly 3 tags")
        \o Cond(Len(split(summary)) > MAX_WORDS, "Summary too long")
        \o Cond(AnyBlank(entries) = "yes", "One or more tags are empty")
        \o Cond(strip(summary) = <<>>, "Summary is empty")
        \o Cond(force, "FORCED TEST ISSUE")

\* reviewer_node with an answer other than YES added to the issues
reviewer_node_SemanticCounts(state, semantic, force) ==
    LET proposal == state.planner_proposal
    IN  IF ~DictTruthy(proposal)
        THEN [raises |-> FALSE, calls |-> 0,
              feedback |-> Feedback(TRUE, <<"No proposal received from Planner.">>)]
        ELSE IF ReviewRaises(proposal)
        THEN [raises |-> TRUE, calls |-> 0, feedback |-> NoFeedback]
        ELSE LET issues == ReviewIssues(proposal, force)
                               \o Cond(semantic # "YES", "Tags are not relevant")
             IN  [raises |-> FALSE, calls |-> 1,
                  feedback |-> IF issues # <<>> THEN Feedback(TRUE, issues)
                               ELSE Feedback(FALSE, <<>>)]

\* reviewer_node without the early return on a missing proposal
reviewer_node_ChecksAnyway(state, semantic, force) ==
    LET proposal == state.planner_proposal
    IN  IF ReviewRaises(proposal)
        THEN [raises |-> TRUE, calls |-> 0, feedback |-> NoFeedback]
        ELSE LET issues == ReviewIssues(proposal, force)
             IN  [raises |-> FALSE, calls |-> 1,
                  feedback |-> IF issues # <<>> THEN Feedback(TRUE, issues)
                               ELSE Feedback(FALSE, <<>>)]

\* reviewer_node: what it does on a state when the model answers `semantic`:
\* raises = it raised, calls = model calls it made, feedback = the value of the
\* reviewer_feedback key it returns
reviewer_node(state, semantic, force) ==
    LET proposal == state.planner_proposal
    IN  IF ~DictTruthy(proposal)
        THEN [raises |-> FALSE, calls |-> 0,
              feedback |-> Feedback(TRUE, <<"No proposal received from Planner.">>)]
        ELSE IF ReviewRaises(proposal)
        THEN [raises |-> TRUE, calls |-> 0, feedback |-> NoFeedback]
        ELSE LET issues == ReviewIssues(proposal, force)
             IN  [raises |-> FALSE, calls |-> 1,
                  feedback |-> IF issues # <<>> THEN Feedback(TRUE, issues)
                               ELSE Feedback(FALSE, <<>>)]

\* supervisor_node counting two turns for one
supervisor_node_Twice(state) == state.turn_count + 2

\* supervisor_node: the value of the turn_count key it returns
supervisor_node(state) == state.turn_count + 1

\* router_logic with the turn limit tested with > for >=
router_logic_LateLimit(state) ==
    IF state.turn_count > MAX_TURNS THEN END
    ELSE IF ~DictTruthy(state.planner_proposal) THEN "planner"
    ELSE IF ~FeedbackTruthy(state.reviewer_feedback) THEN "reviewer"
    ELSE IF GetHasIssues(state.reviewer_feedback) THEN "planner"
    ELSE END

\* router_logic with the turn limit tested last
router_logic_LimitLast(state) ==
    IF ~DictTruthy(state.planner_proposal) THEN "planner"
    ELSE IF ~FeedbackTruthy(state.reviewer_feedback) THEN "reviewer"
    ELSE IF GetHasIssues(state.reviewer_feedback) /\ state.turn_count < MAX_TURNS
    THEN "planner"
    ELSE END

\* router_logic that also looks at the content
router_logic_ReadsContent(state) ==
    IF state.turn_count >= MAX_TURNS THEN END
    ELSE IF ~DictTruthy(state.planner_proposal) THEN "planner"
    ELSE IF ~FeedbackTruthy(state.reviewer_feedback) THEN "reviewer"
    ELSE IF GetHasIssues(state.reviewer_feedback) /\ state.content # "content2"
    THEN "planner"
    ELSE END

\* router_logic asking for a verdict before it asks for a proposal
router_logic_ReviewFirst(state) ==
    IF state.turn_count >= MAX_TURNS THEN END
    ELSE IF ~FeedbackTruthy(state.reviewer_feedback) THEN "reviewer"
    ELSE IF ~DictTruthy(state.planner_proposal) THEN "planner"
    ELSE IF GetHasIssues(state.reviewer_feedback) THEN "planner"
    ELSE END

\* router_logic
router_logic(state) ==
    IF state.turn_count >= MAX_TURNS THEN END
    ELSE IF ~DictTruthy(state.planner_proposal) THEN "planner"
    ELSE IF ~FeedbackTruthy(state.reviewer_feedback) THEN "reviewer"
    ELSE IF GetHasIssues(state.reviewer_feedback) THEN "planner"
    ELSE END

\* main(): the record built from the final state
NoFinal ==
    [title |-> "", tags |-> Absent, summary |-> Absent, total_turns |-> 0,
     review_status |-> "none"]

\* main() with the review_status test inverted
FinalJson_Inverted(state) ==
    [title |-> state.title,
     tags |-> GetTags(state.planner_proposal),
     summary |-> GetSummary(state.planner_proposal),
     total_turns |-> state.turn_count,
     review_status |-> IF GetHasIssues(state.reviewer_feedback) THEN "approved"
                       ELSE "needs_revision"]

FinalJson(state) ==
    [title |-> state.title,
     tags |-> GetTags(state.planner_proposal),
     summary |-> GetSummary(state.planner_proposal),
     total_turns |-> state.turn_count,
     review_status |-> IF ~GetHasIssues(state.reviewer_feedback) THEN "approved"
                       ELSE "needs_revision"]

\* the exception reviewer_node's rules raise on the proposal
ReviewErrorName(proposal) ==
    IF GetTags(proposal).type \notin {"list", "str"} THEN "TypeError" ELSE "AttributeError"

(***************************************************************************)
(* Inputs: titles, contents, and the texts a model call may return         *)
(***************************************************************************)
Titles == {"title1", "title2"}
Contents == {"content1", "content2"}
Answers == {"YES", "NO"}

SeqsUpTo(S, n) == UNION {[1..k -> S] : k \in 0..n}

\* a summary of n one-letter words
RECURSIVE WordsStr(_)
WordsStr(n) ==
    IF n = 0 THEN <<>>
    ELSE IF n = 1 THEN <<"x">>
    ELSE WordsStr(n - 1) \o <<" ", IF n % 2 = 0 THEN "y" ELSE "x">>

TagA == JStr(<<"a">>)
TagB == JStr(<<"b">>)
TagUpperA == JStr(<<"A">>)
TagPaddedA == JStr(<<" ", "a", " ">>)
TagEmpty == JStr(<<>>)
TagBlank == JStr(<<" ">>)
TagGeneral == JStr(GENERAL)
TagOne == JInt(<<"1">>)
TagZero == JInt(<<"0">>)

ShortSummary == JStr(WordsStr(2))
LongSummaries == {JStr(WordsStr(MAX_WORDS + k)) : k \in 1..ExtraWords}
Summaries ==
    {ShortSummary, JStr(WordsStr(MAX_WORDS)), JStr(<<>>), JStr(<<" ">>),
     JStr(<<" ">> \o WordsStr(2) \o <<" ">>), JInt(<<"7">>), JNull, Absent}
        \cup LongSummaries

GoodTags == JList(<<TagA, TagB, JStr(<<"c">>)>>)

\* tag lists a model reply to the Planner may carry
ReplyTagLists ==
    SeqsUpTo({TagA, TagOne}, MaxTags)
        \cup {<<TagEmpty, TagOne, TagA>>, <<TagA, TagBlank, TagB>>,
              <<TagZero, TagOne, TagA>>, <<JNull, TagA, TagA>>,
              <<TagA, TagUpperA, TagGeneral>>, <<TagA, TagB, JStr(<<"c">>)>>}

ReplyDicts ==
    {Dict(JList(l), ShortSummary) : l \in ReplyTagLists}
        \cup {Dict(GoodTags, s) : s \in Summaries}
        \cup {Dict(TagA, ShortSummary), Dict(JNull, ShortSummary),
              Dict(Absent, ShortSummary), EmptyDict,
              [Dict(GoodTags, ShortSummary) EXCEPT !.extra = TRUE]}

WrapDicts ==
    {Dict(GoodTags, ShortSummary), Dict(JList(<<TagA, TagOne>>), ShortSummary),
     Dict(GoodTags, JStr(<<>>))}

ModelTexts ==
    {<<Obj(d)>> : d \in ReplyDicts}
        \cup {<<Fence, Prose, NL, Obj(d), NL, Fence>> : d \in WrapDicts}
        \cup {<<Fence, Obj(d), NL, Fence>> : d \in WrapDicts}
        \cup {<<Prose, NL, Obj(d), NL, Prose>> : d \in WrapDicts}
        \cup {<<Broken(d)>> : d \in WrapDicts}
        \cup {<<Prose, Loose(d)>> : d \in WrapDicts}
        \cup {<<Obj(d), Prose, Obj(Dict(GoodTags, ShortSummary))>> : d \in WrapDicts}
        \cup {<<>>, <<Prose>>, <<LBrace, Prose, RBrace>>, <<RBrace, Prose, LBrace>>}

(***************************************************************************)
(* Part1_and_2 main.py: the book store as the module leaves it at import   *)
(***************************************************************************)
Book(i, t, a) == [id |-> i, title |-> t, author |-> a]

InitialBooks ==
    <<Book(1, "The Casual Vacancy", "J.K. Rowling"),
      Book(2, "The Handmaid's Tale", "Margaret Atwood"),
      Book(3, "One Hundred Years of Solitude", "Gabriel Garcia Marquez")>>

FIRST_FREE_ID == 4

NoRequest == [op |-> "none", books_db |-> <<>>, next_id |-> 0, book_id |-> 0]

BooksAtImport ==
    /\ books_db = InitialBooks
    /\ next_id = FIRST_FREE_ID
    /\ last_request = NoRequest

(***************************************************************************)
(* Part3 main(): the graph run                                             *)
(***************************************************************************)
NoOut == [finalize |-> NoDict, planner |-> NoDict]

Idle ==
    /\ planner_obj = NoDict /\ reviewer_obj = NoDict /\ finalizer_obj = NoDict
    /\ fn_in = NoDict /\ fn_out = NoOut
    /\ verdicts = <<>>
    /\ relevance = "none"
    /\ stages = <<>>
    /\ BooksAtImport

InitGraph ==
    /\ workflow = "graph"
    /\ pc = "supervisor"
    /\ title \in Titles
    /\ content \in Contents
    /\ planner_proposal = EmptyDict
    /\ reviewer_feedback = EmptyFeedback
    /\ turn_count = 0
    /\ force_issue \in BOOLEAN
    /\ response = <<>>
    /\ decision = "none"
    /\ error = "none"
    /\ router_evals = 0
    /\ llm_calls = 0
    /\ last_node = "start"
    /\ final_json = NoFinal
    /\ Idle

Supervisor ==
    /\ workflow = "graph" /\ pc = "supervisor"
    /\ turn_count' = supervisor_node(AgentState)
    /\ pc' = "router"
    /\ last_node' = "supervisor"
    /\ UNCHANGED <<workflow, title, content, planner_proposal, reviewer_feedback,
                   force_issue, response, decision, error, router_evals, llm_calls,
                   final_json, planner_obj, reviewer_obj, finalizer_obj, fn_in, fn_out, verdicts>>
    /\ UNCHANGED stages
    /\ UNCHANGED relevance
    /\ UNCHANGED bookVars

Router ==
    /\ pc = "router"
    /\ decision' = router_logic(AgentState)
    /\ pc' = decision'
    /\ router_evals' = router_evals + 1
    /\ UNCHANGED <<workflow, title, content, planner_proposal, reviewer_feedback,
                   turn_count, force_issue, response, error, llm_calls, last_node,
                   final_json, planner_obj, reviewer_obj, finalizer_obj, fn_in, fn_out, verdicts>>
    /\ UNCHANGED stages
    /\ UNCHANGED relevance
    /\ UNCHANGED bookVars

\* planner_node returning an emptied reviewer_feedback next to its proposal
Planner_ClearsFeedback(text) ==
    /\ workflow = "graph" /\ pc = "planner"
    /\ llm_calls' = llm_calls + 1
    /\ response' = text
    /\ planner_proposal' = planner_node(AgentState, text)
    /\ reviewer_feedback' = EmptyFeedback
    /\ pc' = "supervisor"
    /\ last_node' = "planner"
    /\ UNCHANGED <<workflow, title, content, turn_count,
                   force_issue, decision, error, router_evals, final_json,
                   planner_obj, reviewer_obj, finalizer_obj, fn_in, fn_out, verdicts>>
    /\ stages' = Append(stages, "planner")
    /\ UNCHANGED relevance
    /\ UNCHANGED bookVars

Planner(text) ==
    /\ workflow = "graph" /\ pc = "planner"
    /\ llm_calls' = llm_calls + 1
    /\ response' = text
    /\ planner_proposal' = planner_node(AgentState, text)
    /\ pc' = "supervisor"
    /\ last_node' = "planner"
    /\ UNCHANGED <<workflow, title, content, reviewer_feedback, turn_count,
                   force_issue, decision, error, router_evals, final_json,
                   planner_obj, reviewer_obj, finalizer_obj, fn_in, fn_out, verdicts>>
    /\ stages' = Append(stages, "planner")
    /\ UNCHANGED relevance
    /\ UNCHANGED bookVars

\* planner_node with llm.invoke inside its try block: the failure is logged
\* and the fallback proposal returned
PlannerCallFails_Absorbed ==
    /\ workflow = "graph" /\ pc = "planner"
    /\ llm_calls' = llm_calls + 1
    /\ error' = "ModelUnavailable"
    /\ planner_proposal' = FALLBACK
    /\ pc' = "supervisor"
    /\ last_node' = "planner"
    /\ UNCHANGED <<workflow, title, content, reviewer_feedback,
                   turn_count, force_issue, response, decision, router_evals,
                   final_json, planner_obj, reviewer_obj, finalizer_obj, fn_in, fn_out, verdicts>>
    /\ stages' = Append(stages, "planner")
    /\ UNCHANGED relevance
    /\ UNCHANGED bookVars

\* llm.invoke raises in planner_node: nothing catches it
PlannerCallFails ==
    /\ workflow = "graph" /\ pc = "planner"
    /\ llm_calls' = llm_calls + 1
    /\ error' = "ModelUnavailable"
    /\ pc' = "raised"
    /\ last_node' = "planner"
    /\ UNCHANGED <<workflow, title, content, planner_proposal, reviewer_feedback,
                   turn_count, force_issue, response, decision, router_evals,
                   final_json, planner_obj, reviewer_obj, finalizer_obj, fn_in, fn_out, verdicts>>
    /\ stages' = Append(stages, "planner")
    /\ UNCHANGED relevance
    /\ UNCHANGED bookVars

Reviewer(semantic) ==
    /\ workflow = "graph" /\ pc = "reviewer"
    /\ LET r == reviewer_node(AgentState, semantic, force_issue)
       IN  /\ llm_calls' = llm_calls + r.calls
           /\ reviewer_feedback' = IF r.raises THEN reviewer_feedback ELSE r.feedback
           /\ error' = IF r.raises THEN ReviewErrorName(planner_proposal) ELSE error
           /\ pc' = IF r.raises THEN "raised" ELSE "supervisor"
           /\ verdicts' = IF r.raises THEN verdicts
                          ELSE Append(verdicts, r.feedback.has_issues)
    /\ last_node' = "reviewer"
    /\ UNCHANGED <<workflow, title, content, planner_proposal, turn_count,
                   force_issue, response, decision, router_evals, final_json,
                   planner_obj, reviewer_obj, finalizer_obj, fn_in, fn_out>>
    /\ stages' = Append(stages, "reviewer")
    /\ relevance' = semantic
    /\ UNCHANGED bookVars

\* llm.invoke raises in reviewer_node, which reaches it only past rules 1-4
ReviewerCallFails ==
    /\ workflow = "graph" /\ pc = "reviewer"
    /\ reviewer_node(AgentState, "YES", force_issue).calls = 1
    /\ llm_calls' = llm_calls + 1
    /\ error' = "ModelUnavailable"
    /\ pc' = "raised"
    /\ last_node' = "reviewer"
    /\ UNCHANGED <<workflow, title, content, planner_proposal, reviewer_feedback,
                   turn_count, force_issue, response, decision, router_evals,
                   final_json, planner_obj, reviewer_obj, finalizer_obj, fn_in, fn_out, verdicts>>
    /\ stages' = Append(stages, "reviewer")
    /\ UNCHANGED relevance
    /\ UNCHANGED bookVars

\* the stream is exhausted: main() builds the final publish record
Finish ==
    /\ workflow = "graph" /\ pc = END
    /\ final_json' = FinalJson(AgentState)
    /\ pc' = "done"
    /\ UNCHANGED <<workflow, title, content, planner_proposal, reviewer_feedback,
                   turn_count, force_issue, response, decision, error, router_evals,
                   llm_calls, last_node, planner_obj, reviewer_obj, finalizer_obj,
                   fn_in, fn_out, verdicts>>
    /\ UNCHANGED stages
    /\ UNCHANGED relevance
    /\ UNCHANGED bookVars

(***************************************************************************)
(* Part2: clean_tags, finalize_output and the linear pipeline              *)
(***************************************************************************)
\* the loop of clean_tags over the entries left, given seen and cleaned so far
RECURSIVE CleanLoop(_, _, _)
CleanLoop(items, seen, cleaned) ==
    IF items = <<>> THEN cleaned
    ELSE LET t == Head(items)
             x == strip(t.chars)
         IN  IF t.type # "str" THEN CleanLoop(Tail(items), seen, cleaned)
             ELSE IF x = <<>> THEN CleanLoop(Tail(items), seen, cleaned)
             ELSE IF lower(x) \in seen THEN CleanLoop(Tail(items), seen, cleaned)
             ELSE CleanLoop(Tail(items), seen \cup {lower(x)}, Append(cleaned, JStr(x)))

clean_tags(tags) == IF tags.type # "list" THEN <<>> ELSE CleanLoop(tags.items, {}, <<>>)

\* finalize_output: obj.get("summary") is None when the key is missing
finalize_output(obj) ==
    Dict(JList(PadTags(FirstN(clean_tags(obj.tags), NUM_TAGS))),
         IF obj.summary.type = "absent" THEN JNull ELSE obj.summary)

\* extract_json_from_text(text) or {}
ParsedOrEmpty(text) ==
    LET r == extract_json_linear(text)
    IN  IF r.ok /\ DictTruthy(r.d) THEN r.d ELSE EmptyDict

LinearTexts ==
    {<<Obj(d)>> : d \in WrapDicts}
        \cup {<<Fence, Prose, NL, Obj(d), NL, Fence>> : d \in WrapDicts}
        \cup {<<Prose, NL, Obj(d), NL, Prose>> : d \in WrapDicts}
        \cup {<<Broken(d)>> : d \in WrapDicts}
        \cup {<<Obj(EmptyDict)>>, <<Prose>>, <<Obj(Dict(GoodTags, ShortSummary)), Prose,
               Obj(Dict(GoodTags, ShortSummary))>>}

InitLinear ==
    /\ workflow = "linear"
    /\ pc = "planner_agent"
    /\ title \in Titles
    /\ content \in Contents
    /\ planner_proposal = EmptyDict
    /\ reviewer_feedback = EmptyFeedback
    /\ turn_count = 0
    /\ force_issue = TRUE
    /\ response = <<>>
    /\ decision = "none"
    /\ error = "none"
    /\ router_evals = 0
    /\ llm_calls = 0
    /\ last_node = "start"
    /\ final_json = NoFinal
    /\ Idle

\* planner_agent(title, content)
LinPlanner(text) ==
    /\ workflow = "linear" /\ pc = "planner_agent"
    /\ llm_calls' = llm_calls + 1
    /\ response' = text
    /\ planner_obj' = ParsedOrEmpty(text)
    /\ pc' = "reviewer_agent"
    /\ last_node' = "planner_agent"
    /\ UNCHANGED <<workflow, title, content, planner_proposal, reviewer_feedback,
                   turn_count, force_issue, decision, error, router_evals, final_json,
                   reviewer_obj, finalizer_obj, fn_in, fn_out, verdicts>>
    /\ stages' = Append(stages, "planner_agent")
    /\ UNCHANGED relevance
    /\ UNCHANGED bookVars

\* reviewer_agent(planner_obj)
LinReviewer(text) ==
    /\ workflow = "linear" /\ pc = "reviewer_agent"
    /\ llm_calls' = llm_calls + 1
    /\ response' = text
    /\ reviewer_obj' = ParsedOrEmpty(text)
    /\ pc' = "finalizer_agent"
    /\ last_node' = "reviewer_agent"
    /\ UNCHANGED <<workflow, title, content, planner_proposal, reviewer_feedback,
                   turn_count, force_issue, decision, error, router_evals, final_json,
                   planner_obj, finalizer_obj, fn_in, fn_out, verdicts>>
    /\ stages' = Append(stages, "reviewer_agent")
    /\ UNCHANGED relevance
    /\ UNCHANGED bookVars

\* finalizer_agent(reviewer_obj); run_agent_workflow returns finalizer_obj
LinFinalizer(text) ==
    /\ workflow = "linear" /\ pc = "finalizer_agent"
    /\ llm_calls' = llm_calls + 1
    /\ response' = text
    /\ finalizer_obj' = ParsedOrEmpty(text)
    /\ pc' = "returned"
    /\ last_node' = "finalizer_agent"
    /\ UNCHANGED <<workflow, title, content, planner_proposal, reviewer_feedback,
                   turn_count, force_issue, decision, error, router_evals, final_json,
                   planner_obj, reviewer_obj, fn_in, fn_out, verdicts>>
    /\ stages' = Append(stages, "finalizer_agent")
    /\ UNCHANGED relevance
    /\ UNCHANGED bookVars

\* ollama_chat raises RuntimeError in the stage the pipeline is at
LinCallFails ==
    /\ workflow = "linear"
    /\ pc \in {"planner_agent", "reviewer_agent", "finalizer_agent"}
    /\ llm_calls' = llm_calls + 1
    /\ error' = "ModelUnavailable"
    /\ pc' = "raised"
    /\ last_node' = pc
    /\ UNCHANGED <<workflow, title, content, planner_proposal, reviewer_feedback,
                   turn_count, force_issue, response, decision, router_evals,
                   final_json, planner_obj, reviewer_obj, finalizer_obj, fn_in, fn_out, verdicts>>
    /\ stages' = Append(stages, pc)
    /\ UNCHANGED relevance
    /\ UNCHANGED bookVars

(***************************************************************************)
(* The two programs                                                        *)
(***************************************************************************)
Init == InitGraph \/ InitLinear

Next ==
    \/ Supervisor
    \/ Router
    \/ \E text \in ModelTexts : Planner(text)
    \/ PlannerCallFails
    \/ \E semantic \in Answers : Reviewer(semantic)
    \/ ReviewerCallFails
    \/ Finish
    \/ \E text \in LinearTexts : LinPlanner(text)
    \/ \E text \in LinearTexts : LinReviewer(text)
    \/ \E text \in LinearTexts : LinFinalizer(text)
    \/ LinCallFails

Spec == Init /\ [][Next]_vars

(***************************************************************************)
(* router_logic on arbitrary states                                        *)
(***************************************************************************)
ProbeProposals ==
    {NoDict, EmptyDict, FALLBACK, Dict(GoodTags, ShortSummary),
     Dict(JList(<<>>), JStr(<<>>)), [EmptyDict EXCEPT !.extra = TRUE]}

ProbeFeedbacks ==
    {NoFeedback, EmptyFeedback, Feedback(TRUE, <<"Summary is empty">>),
     Feedback(FALSE, <<>>),
     [exists |-> TRUE, keys |-> {"issues"}, has_issues |-> FALSE,
      issues |-> <<"Summary is empty">>],
     [exists |-> TRUE, keys |-> {"has_issues"}, has_issues |-> TRUE, issues |-> <<>>]}

InitRouter ==
    /\ workflow = "router_logic"
    /\ pc = "router"
    /\ title \in Titles
    /\ content \in Contents
    /\ planner_proposal \in ProbeProposals
    /\ reviewer_feedback \in ProbeFeedbacks
    /\ turn_count \in 0..MaxProbeTurn
    /\ force_issue = TRUE
    /\ response = <<>>
    /\ decision = "none"
    /\ error = "none"
    /\ router_evals = 0
    /\ llm_calls = 0
    /\ last_node = "start"
    /\ final_json = NoFinal
    /\ Idle

NextRouter == Router

SpecRouter == InitRouter /\ [][NextRouter]_vars

(***************************************************************************)
(* The normalizers on arbitrary records                                    *)
(***************************************************************************)
NormAtoms == {TagA, TagUpperA, TagPaddedA, TagB, TagEmpty, TagGeneral, TagOne}

NormDicts ==
    {Dict(JList(l), ShortSummary) : l \in SeqsUpTo(NormAtoms, MaxTags)}
        \cup {Dict(GoodTags, s) : s \in Summaries}
        \cup {Dict(TagA, ShortSummary), Dict(Absent, ShortSummary), EmptyDict}

InitNormalize ==
    /\ workflow = "normalize"
    /\ pc = "call"
    /\ title \in {"title1"}
    /\ content \in {"content1"}
    /\ planner_proposal = EmptyDict
    /\ reviewer_feedback = EmptyFeedback
    /\ turn_count = 0
    /\ force_issue = TRUE
    /\ response = <<>>
    /\ decision = "none"
    /\ error = "none"
    /\ router_evals = 0
    /\ llm_calls = 0
    /\ last_node = "start"
    /\ final_json = NoFinal
    /\ planner_obj = NoDict /\ reviewer_obj = NoDict /\ finalizer_obj = NoDict
    /\ fn_in \in NormDicts
    /\ fn_out = NoOut
    /\ verdicts = <<>>
    /\ relevance = "none"
    /\ stages = <<>>
    /\ BooksAtImport

\* finalize_output(obj), and planner_node on the strict JSON text of obj
Normalize ==
    /\ workflow = "normalize" /\ pc = "call"
    /\ fn_out' = [finalize |-> finalize_output(fn_in),
                  planner |-> planner_node(AgentState, <<Obj(fn_in)>>)]
    /\ pc' = "returned"
    /\ UNCHANGED <<workflow, title, content, planner_proposal, reviewer_feedback,
                   turn_count, force_issue, response, decision, error, router_evals,
                   llm_calls, last_node, final_json, planner_obj, reviewer_obj,
                   finalizer_obj, fn_in, verdicts>>
    /\ UNCHANGED stages
    /\ UNCHANGED relevance
    /\ UNCHANGED bookVars

NextNormalize == Normalize

SpecNormalize == InitNormalize /\ [][NextNormalize]_vars

(***************************************************************************)
(* reviewer_node on arbitrary proposals                                    *)
(***************************************************************************)
ReviewSummaries ==
    {ShortSummary, JStr(WordsStr(MAX_WORDS)), JStr(WordsStr(MAX_WORDS + 1)),
     JStr(<<>>), JStr(<<" ">>)}

ReviewProposals ==
    {Dict(JList(l), sm) :
        l \in SeqsUpTo({TagA, TagBlank, TagOne}, MaxTags), sm \in ReviewSummaries}
        \cup {NoDict, EmptyDict, Dict(JList(<<TagEmpty, TagA>>), JStr(<<>>))}

InitReviewer ==
    /\ workflow = "reviewer_node"
    /\ pc = "reviewer"
    /\ title \in {"title1"}
    /\ content \in {"content1"}
    /\ planner_proposal \in ReviewProposals
    /\ reviewer_feedback = EmptyFeedback
    /\ turn_count = 0
    /\ force_issue \in BOOLEAN
    /\ response = <<>>
    /\ decision = "none"
    /\ error = "none"
    /\ router_evals = 0
    /\ llm_calls = 0
    /\ last_node = "start"
    /\ final_json = NoFinal
    /\ Idle

\* reviewer_node(state) with the model answering `semantic`
Review(semantic) ==
    /\ workflow = "reviewer_node" /\ pc = "reviewer"
    /\ LET r == reviewer_node(AgentState, semantic, force_issue)
       IN  /\ llm_calls' = llm_calls + r.calls
           /\ reviewer_feedback' = IF r.raises THEN reviewer_feedback ELSE r.feedback
           /\ error' = IF r.raises THEN ReviewErrorName(planner_proposal) ELSE error
           /\ pc' = IF r.raises THEN "raised" ELSE "returned"
           /\ verdicts' = IF r.raises THEN verdicts
                          ELSE Append(verdicts, r.feedback.has_issues)
    /\ last_node' = "reviewer"
    /\ stages' = Append(stages, "reviewer")
    /\ UNCHANGED <<workflow, title, content, planner_proposal, turn_count,
                   force_issue, response, decision, router_evals, final_json,
                   planner_obj, reviewer_obj, finalizer_obj, fn_in, fn_out>>
    /\ relevance' = semantic
    /\ UNCHANGED bookVars

NextReviewer == \E semantic \in Answers : Review(semantic)

SpecReviewer == InitReviewer /\ [][NextReviewer]_vars

(***************************************************************************)
(* The two extractors on serialized records                                *)
(***************************************************************************)
RoundTripRecords ==
    {Dict(JList(l), sm) :
        l \in SeqsUpTo({TagA, TagPaddedA, TagB}, MaxTags),
        sm \in {ShortSummary, JStr(<<" ">> \o WordsStr(2) \o <<" ">>),
                JStr(WordsStr(MAX_WORDS + 1))}}

\* a record as strict JSON, in a fence with a language tag, in a fence inside
\* prose, between lines of prose, and after prose that has braces of its own
Serializations(d) ==
    {<<Obj(d)>>,
     <<Fence, Prose, NL, Obj(d), NL, Fence>>,
     <<Prose, NL, Fence, NL, Obj(d), NL, Fence, NL, Prose>>,
     <<Prose, NL, Obj(d), NL, Prose>>,
     <<Prose, LBrace, Prose, RBrace, Prose, NL, Obj(d)>>}

InitExtract ==
    /\ workflow = "extract"
    /\ pc = "call"
    /\ title \in {"title1"}
    /\ content \in {"content1"}
    /\ planner_proposal = EmptyDict
    /\ reviewer_feedback = EmptyFeedback
    /\ turn_count = 0
    /\ force_issue = TRUE
    /\ fn_in \in RoundTripRecords
    /\ response \in Serializations(fn_in)
    /\ decision = "none"
    /\ error = "none"
    /\ router_evals = 0
    /\ llm_calls = 0
    /\ last_node = "start"
    /\ final_json = NoFinal
    /\ planner_obj = NoDict /\ reviewer_obj = NoDict /\ finalizer_obj = NoDict
    /\ fn_out = NoOut
    /\ verdicts = <<>>
    /\ relevance = "none"
    /\ stages = <<>>
    /\ BooksAtImport

\* both extract_json_from_text functions on the text
Extract ==
    /\ workflow = "extract" /\ pc = "call"
    /\ fn_out' = [part3 |-> extract_json_from_text(response),
                  part2 |-> extract_json_linear(response)]
    /\ pc' = "returned"
    /\ UNCHANGED <<workflow, title, content, planner_proposal, reviewer_feedback,
                   turn_count, force_issue, response, decision, error, router_evals,
                   llm_calls, last_node, final_json, planner_obj, reviewer_obj,
                   finalizer_obj, fn_in, verdicts, stages>>
    /\ UNCHANGED relevance
    /\ UNCHANGED bookVars

NextExtract == Extract

SpecExtract == InitExtract /\ [][NextExtract]_vars

(***************************************************************************)
(* Part3 extract_json_from_text on arbitrary texts                         *)
(***************************************************************************)
ExtractTexts ==
    ModelTexts
        \cup {<<Fence, NL, Broken(d), NL, Fence, NL, Fence, NL, Obj(d), NL, Fence>> :
                 d \in WrapDicts}
        \cup {<<NL, Prose, NL, Fence, Prose, NL, Obj(d), NL, Fence, NL>> : d \in WrapDicts}
        \cup {<<NL, Prose, NL, Broken(d), NL>> : d \in WrapDicts}
        \cup {<<Prose, NL, Fence, NL, Prose, Loose(d), NL>> : d \in WrapDicts}
        \cup {<<Prose, LBrace, Prose, RBrace, NL, Obj(d)>> : d \in ReplyDicts}
        \cup {<<NL, Prose, NL>>, <<Fence, Fence>>, <<Fence, NL, Prose, NL, Fence>>}

InitStrategies ==
    /\ workflow = "extract"
    /\ pc = "call"
    /\ title \in {"title1"}
    /\ content \in {"content1"}
    /\ planner_proposal = EmptyDict
    /\ reviewer_feedback = EmptyFeedback
    /\ turn_count = 0
    /\ force_issue = TRUE
    /\ response \in ExtractTexts
    /\ decision = "none"
    /\ error = "none"
    /\ router_evals = 0
    /\ llm_calls = 0
    /\ last_node = "start"
    /\ final_json = NoFinal
    /\ Idle

NextStrategies == Extract

SpecStrategies == InitStrategies /\ [][NextStrategies]_vars

(***************************************************************************)
(* Part1_and_2 main.py: the requests of the book store                     *)
(***************************************************************************)
BookTitles == {"t1", "t2"}
BookAuthors == {"a1"}

\* get_next_id() without the increment
get_next_id_Reuse(n) == [current_id |-> n, next_id |-> n]

\* get_next_id(): the id it returns and the next_id it leaves
get_next_id(n) == [current_id |-> n, next_id |-> n + 1]

\* [book for book in books if book["id"] != id]
RECURSIVE BooksWithout(_, _)
BooksWithout(books, id) ==
    IF books = <<>> THEN <<>>
    ELSE (IF Head(books).id # id THEN <<Head(books)>> ELSE <<>>)
            \o BooksWithout(Tail(books), id)

\* delete_highest_id taking the first book of the list for the highest
HighestIdBook_First(books) == books[1]

\* max(books, key=lambda x: x["id"]): the first book with the largest id
RECURSIVE HighestIdBook(_)
HighestIdBook(books) ==
    IF Len(books) = 1 THEN books[1]
    ELSE LET m == HighestIdBook(Tail(books))
         IN  IF Head(books).id >= m.id THEN Head(books) ELSE m

\* the loop of update_book: the first book with the id is changed
RECURSIVE UpdateFirst(_, _, _, _)
UpdateFirst(books, id, t, a) ==
    IF books = <<>> THEN <<>>
    ELSE IF Head(books).id = id
         THEN <<[Head(books) EXCEPT !.title = t, !.author = a]>> \o Tail(books)
         ELSE <<Head(books)>> \o UpdateFirst(Tail(books), id, t, a)

Request(op, id) ==
    [op |-> op, books_db |-> books_db, next_id |-> next_id, book_id |-> id]

InitBooks ==
    /\ workflow = "books"
    /\ pc = "serving"
    /\ title \in {"title1"}
    /\ content \in {"content1"}
    /\ planner_proposal = EmptyDict
    /\ reviewer_feedback = EmptyFeedback
    /\ turn_count = 0
    /\ force_issue = TRUE
    /\ response = <<>>
    /\ decision = "none"
    /\ error = "none"
    /\ router_evals = 0
    /\ llm_calls = 0
    /\ last_node = "start"
    /\ final_json = NoFinal
    /\ Idle

\* POST /add
add_book(t, a) ==
    /\ workflow = "books"
    /\ next_id <= MaxBookId
    /\ LET r == get_next_id(next_id)
       IN  /\ books_db' = Append(books_db, Book(r.current_id, t, a))
           /\ next_id' = r.next_id
    /\ last_request' = Request("add", next_id)
    /\ UNCHANGED agentVars

\* POST /update/{book_id}
update_book(book_id, t, a) ==
    /\ workflow = "books"
    /\ books_db' = UpdateFirst(books_db, book_id, t, a)
    /\ last_request' = Request("update", book_id)
    /\ UNCHANGED <<next_id, agentVars>>

\* POST /delete/{book_id}
delete_book(book_id) ==
    /\ workflow = "books"
    /\ books_db' = BooksWithout(books_db, book_id)
    /\ last_request' = Request("delete", book_id)
    /\ UNCHANGED <<next_id, agentVars>>

\* POST /delete-highest
delete_highest_id ==
    /\ workflow = "books"
    /\ books_db' = IF books_db # <<>>
                   THEN BooksWithout(books_db, HighestIdBook(books_db).id)
                   ELSE books_db
    /\ last_request' = Request("delete_highest", 0)
    /\ UNCHANGED <<next_id, agentVars>>

NextBooks ==
    \/ \E t \in BookTitles, a \in BookAuthors : add_book(t, a)
    \/ \E i \in 1..(MaxBookId + 1), t \in BookTitles, a \in BookAuthors :
          update_book(i, t, a)
    \/ \E i \in 1..(MaxBookId + 1) : delete_book(i)
    \/ delete_highest_id

SpecBooks == InitBooks /\ [][NextBooks]_vars

(***************************************************************************)
(* Properties                                                              *)
(***************************************************************************)
AllVerdictsHaveIssues == \A i \in 1..Len(verdicts) : verdicts[i]

\* C1: every run of the agent graph in which each model call returns ends with
\* the Router returning END, after at most MAX_TURNS Router evaluations.
C1_RouterReturnsEnd ==
    workflow = "graph" =>
        /\ router_evals <= MAX_TURNS
        /\ (pc \in {"done", "raised"} /\ error # "ModelUnavailable") => decision = END

\* a run that ended after only verdicts with issues ended at MAX_TURNS
C2_Safety ==
    (workflow = "graph" /\ AllVerdictsHaveIssues /\ pc \in {END, "done"}) =>
        /\ turn_count = MAX_TURNS
        /\ pc = "done" => /\ final_json.total_turns = MAX_TURNS
                          /\ final_json.review_status = "needs_revision"

C2_Premise == workflow = "graph" /\ verdicts # <<>> /\ AllVerdictsHaveIssues

\* the position of a graph run: it grows with every step and is bounded
Rank ==
    3 * turn_count
        + (CASE pc = "router" -> 0
             [] pc \in {"planner", "reviewer", END} -> 1
             [] OTHER -> 2)

\* C2: a Reviewer that always reports issues makes the run stop at exactly
\* MAX_TURNS with review_status "needs_revision": such a run ends at MAX_TURNS,
\* can always take its next step until it has ended (or a model call has
\* failed), and every step brings it nearer to its bounded end.
C2_AlwaysIssuesStopsAtMaxTurns ==
    /\ [](C2_Safety)
    /\ []((C2_Premise /\ pc \notin {"done", "raised"}) => ENABLED Next)
    /\ [](C2_Premise => (pc = "raised" => error = "ModelUnavailable"))
    /\ [](workflow = "graph" => Rank <= 3 * MAX_TURNS + 2)
    /\ [][workflow = "graph" => Rank' > Rank]_vars

C2_Witness ==
    /\ workflow = "graph" /\ pc = "done" /\ verdicts = <<TRUE>> /\ ~force_issue
    /\ turn_count = MAX_TURNS /\ final_json.review_status = "needs_revision"

\* C3: in every run of the graph that ended, the final record has exactly 3
\* tags and a summary of at most 25 words, whatever the model returned.
C3_FinalRecordShape ==
    (workflow = "graph" /\ pc = "done") =>
        /\ final_json.tags.type = "list"
        /\ Len(final_json.tags.items) = 3
        /\ final_json.summary.type = "str"
        /\ Len(split(final_json.summary.chars)) <= 25

C3_Witness ==
    /\ workflow = "graph" /\ pc = "done"
    /\ response = <<Obj(Dict(GoodTags, JStr(WordsStr(26))))>>
    /\ Len(split(final_json.summary.chars)) = 25

\* C4: in every run that ended, review_status is "approved" exactly when the
\* Reviewer has run and its latest verdict has no issues, it is
\* "needs_revision" when the run stopped at MAX_TURNS with issues in the latest
\* verdict, and a Proposal is present in both cases.
C4_StatusTellsForcedStop ==
    (workflow = "graph" /\ pc = "done") =>
        /\ final_json.review_status \in {"approved", "needs_revision"}
        /\ final_json.review_status = "approved"
              <=> (verdicts # <<>> /\ ~verdicts[Len(verdicts)])
        /\ (turn_count >= MAX_TURNS /\ verdicts # <<>> /\ verdicts[Len(verdicts)])
              => final_json.review_status = "needs_revision"
        /\ planner_proposal.exists /\ planner_proposal.tags.type = "list"
        /\ final_json.tags = planner_proposal.tags
        /\ final_json.summary = planner_proposal.summary

C4_Witness ==
    /\ workflow = "graph" /\ pc = "done" /\ turn_count = MAX_TURNS
    /\ verdicts # <<>> /\ verdicts[Len(verdicts)]
    /\ final_json.review_status = "needs_revision"

\* C5: no model output makes the workflow raise: the only error that aborts a
\* run of the graph is a failed model call.
C5_OnlyModelCallAborts ==
    workflow = "graph" => error \in {"none", "ModelUnavailable"}

\* the Planner's reply cannot be parsed by any strategy, or the parsed record
\* lacks tags or summary, or its tags are not a list
Unparseable(text) ==
    LET r == extract_json_from_text(text)
    IN  \/ ~r.ok
        \/ r.d.tags.type = "absent" \/ r.d.summary.type = "absent"
        \/ r.d.tags.type # "list"

PlannerJustRan == workflow = "graph" /\ last_node = "planner" /\ pc = "supervisor"

\* C6 as stated: on an unparseable reply the Planner returns three placeholder
\* tags and a one-word summary.
C6_OneWordDefault ==
    (PlannerJustRan /\ Unparseable(response)) =>
        /\ Len(planner_proposal.tags.items) = 3
        /\ Len(split(planner_proposal.summary.chars)) = 1

\* C6 (amended): on an unparseable reply the Planner returns the same fixed
\* default, the tags tag1, tag2, tag3 and the three-word summary
\* "one word summary", and on the first round the Router then selects the
\* Reviewer.
C6_SafeDefault ==
    /\ (PlannerJustRan /\ Unparseable(response)) =>
          /\ planner_proposal.tags.items =
                <<JStr(<<"t", "a", "g", "1">>), JStr(<<"t", "a", "g", "2">>),
                  JStr(<<"t", "a", "g", "3">>)>>
          /\ split(planner_proposal.summary.chars) =
                <<<<"o", "n", "e">>, <<"w", "o", "r", "d">>,
                  <<"s", "u", "m", "m", "a", "r", "y">>>>
          /\ ~planner_proposal.extra
    /\ (workflow = "graph" /\ router_evals = 2 /\ turn_count = 2
           /\ Unparseable(response)) => decision = "reviewer"

C6_Witness ==
    /\ workflow = "graph" /\ router_evals = 2 /\ turn_count = 2
    /\ response = <<Prose>> /\ planner_proposal = FALLBACK /\ pc = "reviewer"

\* C7: a failed model call is not retried and not absorbed: the stage returns
\* no state update, no later step runs, and the error stays with the caller;
\* in the graph and in the linear pipeline.
C7_FailedCallIsFatal ==
    /\ [](error = "ModelUnavailable" => pc = "raised")
    /\ [][error = "ModelUnavailable" => UNCHANGED vars]_vars
    /\ [][(error # "ModelUnavailable" /\ error' = "ModelUnavailable") =>
            /\ llm_calls' = llm_calls + 1
            /\ UNCHANGED <<planner_proposal, reviewer_feedback, turn_count, final_json,
                           planner_obj, reviewer_obj, finalizer_obj, verdicts>>]_vars

C7_Witness ==
    /\ workflow = "linear" /\ pc = "raised" /\ error = "ModelUnavailable"
    /\ last_node = "reviewer_agent" /\ llm_calls = 2 /\ reviewer_obj = NoDict

\* C8: the Router's decision follows the priority table: END at the turn
\* limit, else planner without a Proposal, else reviewer without a verdict,
\* else planner when the verdict has issues, else END.
C8_RouterTable ==
    LET noProposal == ~planner_proposal.exists \/ planner_proposal = EmptyDict
        noVerdict == ~reviewer_feedback.exists \/ reviewer_feedback.keys = {}
        hasIssues == "has_issues" \in reviewer_feedback.keys
                        /\ reviewer_feedback.has_issues
    IN  decision # "none" =>
          /\ turn_count >= MAX_TURNS => decision = END
          /\ (turn_count < MAX_TURNS /\ noProposal) => decision = "planner"
          /\ (turn_count < MAX_TURNS /\ ~noProposal /\ noVerdict)
                => decision = "reviewer"
          /\ (turn_count < MAX_TURNS /\ ~noProposal /\ ~noVerdict /\ hasIssues)
                => decision = "planner"
          /\ (turn_count < MAX_TURNS /\ ~noProposal /\ ~noVerdict /\ ~hasIssues)
                => decision = END
          /\ (decision = END /\ turn_count < MAX_TURNS)
                => (~noProposal /\ ~noVerdict /\ ~hasIssues)

C8_Witness ==
    /\ workflow = "router_logic" /\ decision = END /\ turn_count = MAX_TURNS
    /\ planner_proposal = NoDict
    /\ reviewer_feedback = Feedback(TRUE, <<"Summary is empty">>)

ValidTags(tags) ==
    /\ tags.type = "list"
    /\ Len(tags.items) = 3
    /\ \A i \in 1..Len(tags.items) :
          tags.items[i].type = "str" /\ strip(tags.items[i].chars) # <<>>
    /\ \A i, j \in 1..Len(tags.items) :
          i # j => lower(tags.items[i].chars) # lower(tags.items[j].chars)

\* C10: for every input record the normalized tags are exactly 3, none empty
\* or blank, and pairwise different when compared case-insensitively.
C10_NormalizedTagsValid ==
    (workflow = "normalize" /\ pc = "returned") => ValidTags(fn_out.finalize.tags)

NormalizeReturned == workflow = "normalize" /\ pc = "returned"

\* the summary is the first MAX_WORDS words of the input's, or the input's
\* unchanged when it has no more words than that
SummaryCut(inp, out) ==
    LET words == split(inp.chars)
    IN  /\ out.type = "str"
        /\ Len(split(out.chars)) <= MAX_WORDS
        /\ Len(words) > MAX_WORDS => split(out.chars) = SubSeq(words, 1, MAX_WORDS)
        /\ Len(words) <= MAX_WORDS => out.chars = inp.chars

\* C11: for every input record the normalized summary has at most 25 words:
\* a longer summary is cut to its first 25 words, a summary within the limit
\* is returned unchanged; in finalize_output and in planner_node.
C11_SummaryWithinLimit ==
    (NormalizeReturned /\ fn_in.summary.type = "str") =>
        /\ fn_in.tags.type = "list" => SummaryCut(fn_in.summary, fn_out.planner.summary)
        /\ SummaryCut(fn_in.summary, fn_out.finalize.summary)

ReviewReturned == workflow = "reviewer_node" /\ pc # "reviewer"

\* the entries the four structural rules put into the issues text
ExpectedIssues(proposal) ==
    LET tags == proposal.tags.items
        summary == proposal.summary.chars
    IN  Cond(Len(tags) # 3, "Need exactly 3 tags")
        \o Cond(Len(split(summary)) > 25, "Summary too long")
        \o Cond(\E i \in 1..Len(tags) :
                    tags[i].type = "str" /\ strip(tags[i].chars) = <<>>,
                "One or more tags are empty")
        \o Cond(strip(summary) = <<>>, "Summary is empty")

\* C12: for every Proposal given to the Reviewer the verdict has has_issues
\* true exactly when one of the four structural rules is violated or the
\* forced-test flag is set, and the issues hold one entry for every violated
\* rule (the checks do not short-circuit).
C12_ReviewerRules ==
    (ReviewReturned /\ DictTruthy(planner_proposal)) =>
        /\ error = "none"
        /\ reviewer_feedback.has_issues
              <=> (ExpectedIssues(planner_proposal) # <<>> \/ force_issue)
        /\ reviewer_feedback.issues =
              ExpectedIssues(planner_proposal) \o Cond(force_issue, "FORCED TEST ISSUE")

\* C13: on a state with no Proposal (absent or empty) the Reviewer returns
\* has_issues true with one explanatory message, runs none of the checks and
\* makes no model call.
C13_NoProposalNoChecks ==
    (ReviewReturned /\ ~DictTruthy(planner_proposal)) =>
        /\ pc = "returned" /\ error = "none"
        /\ reviewer_feedback.has_issues
        /\ reviewer_feedback.issues = <<"No proposal received from Planner.">>
        /\ llm_calls = 0

C13_Witness ==
    /\ workflow = "reviewer_node" /\ pc = "returned"
    /\ planner_proposal = EmptyDict /\ ~force_issue
    /\ reviewer_feedback.has_issues /\ llm_calls = 0

\* C14: in the linear workflow the stages run once each in the order Planner,
\* Reviewer, Finalizer, and the record the workflow returns has exactly 3
\* tags for every model output, the Finalizer's text having gone through the
\* Extractor and the Normalizer.
C14_LinearReturnsNormalized ==
    (workflow = "linear" /\ pc = "returned") =>
        /\ stages = <<"planner_agent", "reviewer_agent", "finalizer_agent">>
        /\ finalizer_obj = finalize_output(ParsedOrEmpty(response))
        /\ Len(finalizer_obj.tags.items) = 3

\* C15: a record serialized as strict JSON, as JSON in a markdown fence, or
\* as JSON surrounded by extra prose is extracted with the identical tags and
\* summary, by both extractors.
C15_ExtractorRoundTrip ==
    (workflow = "extract" /\ pc = "returned") =>
        /\ fn_out.part3.ok
        /\ fn_out.part3.d.tags = fn_in.tags
        /\ fn_out.part3.d.summary = fn_in.summary
        /\ fn_out.part2.ok
        /\ fn_out.part2.d.tags = fn_in.tags
        /\ fn_out.part2.d.summary = fn_in.summary

\* C16: delete-highest on a non-empty store removes exactly the book with the
\* largest id and leaves every other book, their order and next_id as they
\* were; on an empty store it changes nothing.
C16_DeleteHighestRemovesMaxOnly ==
    (workflow = "books" /\ last_request.op = "delete_highest") =>
        LET before == last_request.books_db
        IN  /\ next_id = last_request.next_id
            /\ before = <<>> => books_db = <<>>
            /\ before # <<>> =>
                 \E k \in 1..Len(before) :
                    /\ \A j \in 1..Len(before) : before[j].id <= before[k].id
                    /\ books_db = [j \in 1..(Len(before) - 1) |->
                                      IF j < k THEN before[j] ELSE before[j + 1]]

C16_Witness ==
    /\ workflow = "books" /\ last_request.op = "delete_highest"
    /\ Len(last_request.books_db) = 3 /\ Len(books_db) = 2
    /\ last_request.books_db[3].id = FIRST_FREE_ID
    /\ \A i \in 1..2 : books_db[i].id < FIRST_FREE_ID

\* C17: once the Reviewer has reported issues, a revised Proposal of the
\* Planner is reviewed before the Planner runs again: after the first review
\* no two Planner runs follow each other.
C17_RevisionsAreReviewed ==
    workflow = "graph" =>
        \A i \in 2..(Len(stages) - 1) :
            stages[i] = "planner" => stages[i + 1] = "reviewer"

\* C18: turn_count starts at 0, never decreases, is raised by exactly 1 by the
\* supervisor step before every Router evaluation and by no other step, and
\* stays within 0..MAX_TURNS.
C18_TurnCount ==
    /\ [](workflow = "graph" =>
            /\ turn_count \in 0..MAX_TURNS
            /\ turn_count = router_evals + (IF pc = "router" THEN 1 ELSE 0))
    /\ [][workflow = "graph" =>
            /\ turn_count' >= turn_count
            /\ pc = "supervisor" => turn_count' = turn_count + 1
            /\ pc # "supervisor" => turn_count' = turn_count
            /\ router_evals' # router_evals => pc = "router"]_vars

C18_Witness ==
    /\ workflow = "graph" /\ pc = END /\ turn_count = MAX_TURNS
    /\ router_evals = MAX_TURNS /\ stages = <<"planner", "reviewer", "planner", "planner">>

\* C19: each step changes only its own key of the state: the Planner only
\* planner_proposal, the Reviewer only reviewer_feedback, the supervisor only
\* turn_count, the Router none; title and content never change.
C19_Frame ==
    [][workflow = "graph" =>
          /\ title' = title /\ content' = content
          /\ pc = "planner" => UNCHANGED <<reviewer_feedback, turn_count>>
          /\ pc = "reviewer" => UNCHANGED <<planner_proposal, turn_count>>
          /\ pc = "supervisor" => UNCHANGED <<planner_proposal, reviewer_feedback>>
          /\ pc \in {"router", END} =>
                UNCHANGED <<planner_proposal, reviewer_feedback, turn_count>>]_vars

C19_Witness ==
    /\ workflow = "graph" /\ pc = "supervisor"
    /\ stages = <<"planner", "reviewer", "planner">>
    /\ planner_proposal = Dict(GoodTags, ShortSummary)
    /\ GetHasIssues(reviewer_feedback) /\ turn_count = 3

\* the indexes of the entries the stated procedure keeps: strings that are
\* not blank and that no earlier kept string equals once trimmed and lowered
KeptIndexes(items) ==
    {i \in 1..Len(items) :
        /\ items[i].type = "str"
        /\ strip(items[i].chars) # <<>>
        /\ \A j \in 1..(i - 1) :
              items[j].type = "str" =>
                  lower(strip(items[j].chars)) # lower(strip(items[i].chars))}

\* the tags the stated procedure yields: the first three kept entries,
\* trimmed, then the filler
ProcedureTags(items) ==
    LET kept == KeptIndexes(items)
        nth(n) == CHOOSE i \in kept : Cardinality({j \in kept : j < i}) = n - 1
    IN  [n \in 1..3 |-> IF n <= Cardinality(kept)
                        THEN JStr(strip(items[nth(n)].chars))
                        ELSE JStr(GENERAL)]

\* C20: tag normalization follows the stated procedure for every input list
\* (drop non-strings, trim, drop empties, drop case-insensitive repeats, keep
\* the first 3, pad with the filler), in finalize_output and in planner_node.
C20_TagProcedure ==
    (NormalizeReturned /\ fn_in.tags.type = "list") =>
        /\ fn_out.finalize.tags.items = ProcedureTags(fn_in.tags.items)
        /\ fn_in.summary.type = "str" =>
              fn_out.planner.tags.items = ProcedureTags(fn_in.tags.items)

LooseRecord(d) ==
    /\ d.tags.type = "list" /\ Len(d.tags.items) \in 1..3
    /\ \A i \in 1..Len(d.tags.items) :
          d.tags.items[i].type = "str" /\ d.tags.items[i].chars # <<>>
    /\ d.summary.type = "str" /\ d.summary.chars # <<>>

C23_StageExecutions ==
    workflow = "graph" =>
        /\ Len(stages) <= MAX_TURNS - 1
        /\ \A i \in 1..Len(stages) : stages[i] \in {"planner", "reviewer"}
        /\ pc \in {END, "done"} => Len(stages) = turn_count - 1

C23_Witness ==
    /\ workflow = "graph" /\ pc = "done" /\ Len(stages) = 4 /\ turn_count = 5
    /\ final_json.total_turns = 5

\* C24: in every run of the graph the first stage executed is the Planner,
\* the Reviewer is executed only on a state with a non-empty Proposal, and
\* its no-proposal verdict is never in the state.
C24_PlannerFirst ==
    workflow = "graph" =>
        /\ stages # <<>> => stages[1] = "planner"
        /\ pc = "reviewer" => DictTruthy(planner_proposal)
        /\ reviewer_feedback.issues # <<"No proposal received from Planner.">>

C24_Witness ==
    /\ workflow = "graph" /\ pc = "reviewer" /\ stages = <<"planner">>
    /\ planner_proposal = FALLBACK /\ turn_count = 2

BookIds(books) == {books[i].id : i \in 1..Len(books)}

\* C25: in the book store all books have pairwise distinct ids and next_id is
\* greater than every id in the store; next_id never decreases and an id that
\* appears in the store is the next_id of the moment, so no id is assigned
\* twice, also after its book was deleted; update and delete of an id that is
\* not in the store leave the store unchanged.
C25_BookIds ==
    /\ [](workflow = "books" =>
            /\ \A i, j \in 1..Len(books_db) :
                  i # j => books_db[i].id # books_db[j].id
            /\ \A i \in 1..Len(books_db) : books_db[i].id < next_id
            /\ (last_request.op \in {"update", "delete"}
                   /\ last_request.book_id \notin BookIds(last_request.books_db))
                  => (books_db = last_request.books_db
                         /\ next_id = last_request.next_id))
    /\ [][workflow = "books" =>
            /\ next_id' >= next_id
            /\ \A id \in BookIds(books_db') \ BookIds(books_db) :
                  id = next_id /\ next_id' = next_id + 1]_vars

C25_Witness ==
    /\ workflow = "books" /\ last_request.op = "add"
    /\ FIRST_FREE_ID \notin BookIds(last_request.books_db)
    /\ last_request.next_id = FIRST_FREE_ID + 1
    /\ FIRST_FREE_ID \notin BookIds(books_db)
    /\ (FIRST_FREE_ID + 1) \in BookIds(books_db)

====
